---- MODULE Spec2Model ----
(***************************************************************************)
(* Model of the issue-positions frontend: App (page-level fetch and        *)
(* selection), SpectrumChart (collision-avoiding layout, scene, hover) and *)
(* MemberPanel (two per-selection fetches).                                *)
(*                                                                         *)
(* Units.  JavaScript numbers are modelled as exact rationals:             *)
(*   score  : integer numerator over ScoreDen   (score 0.02 is 2)          *)
(*   x      : integer numerator over XUnit = 2*ScoreDen pixels             *)
(*   rawY   : whole pixels (the y of the collision search)                 *)
(*   y      : integer numerator over YUnit = 2 pixels (y after the shift   *)
(*            by height / 2)                                               *)
(* A number that can be NaN is a record [nan, v].                          *)
(***************************************************************************)
EXTENDS Integers, Sequences, FiniteSets, TLC

----------------------------------------------------------------------------
(* Program constants *)

radius == 12
padding == 1
MaxAttempts == 50
MinHeight == 200
ExtraHeight == 40
MarginLeft == 50
MarginRight == 50
MinContainerWidth == 600
InitialContainerWidth == 800
HoverGrow == 3
FullOpacity == 100
DimOpacity == 35
NormalStrokeWidth == 2
EmphasisStrokeWidth == 3

(* Resolution of the model's scores: hundredths, as the tooltip prints them *)
ScoreDen == 100
XUnit == 2 * ScoreDen
YUnit == 2

(* Bounds of the model *)
MaxN == 3
MaxSelections == 2

Null == 0

----------------------------------------------------------------------------
(* JavaScript numbers that may be NaN *)

Num(n) == [nan |-> FALSE, v |-> n]
NaN == [nan |-> TRUE, v |-> 0]

Max2(a, b) == IF a >= b THEN a ELSE b

(* Math.max(a, b): NaN if either argument is NaN *)
MathMax(a, b) == IF a.nan \/ b.nan THEN NaN ELSE Num(Max2(a.v, b.v))

(* a + n and a - n for a plain number n *)
NumPlus(a, n) == IF a.nan THEN NaN ELSE Num(a.v + n)

(* a - b *)
NumMinus(a, b) == IF a.nan \/ b.nan THEN NaN ELSE Num(a.v - b.v)

----------------------------------------------------------------------------
(* Geometry: SpectrumChart's draw effect, lines 49-96 *)

(* faulty variant: the padding left out of the minimum distance *)
MinDistNoPadding == radius * 2

(* the minimum centre distance of the collision test, (radius + padding) * 2 *)
MinDist == (radius + padding) * 2

(* faulty variant: the step is the whole minimum distance *)
StepMinDist == (radius + padding) * 2

(* the step of the candidate search, radius * 2 + padding *)
Step == radius * 2 + padding

(* faulty variant: the margins not subtracted *)
InnerWidthNoMargins(cw) == cw

(* width = containerWidth - margin.left - margin.right *)
InnerWidth(cw) == cw - MarginLeft - MarginRight

(* d3.scaleLinear().domain([-1, 1]).range([0, width]), in 1/XUnit pixels *)
xScale(score, width) == width * (score + ScoreDen)

(* Math.sqrt(dx * dx + dy * dy) < (radius + padding) * 2 against one placed
   point; the two range tests only keep the squares small *)
TooClose(p, x, y) ==
  LET dx == x - p.x
      dy == (y - p.rawY) * XUnit
      lim == MinDist * XUnit
  IN  /\ dx < lim /\ -dx < lim
      /\ dy < lim /\ -dy < lim
      /\ dx * dx + dy * dy < lim * lim

(* positionsWithY.some(...) *)
Collision(placed, x, y) == \E i \in 1..Len(placed) : TooClose(placed[i], x, y)

(* faulty variant: the multiple grows with every attempt *)
NextCandidateEveryAttempt(attempts, direction) == direction * (attempts + 1) * Step

(* the candidate generated after a collision at `attempts` *)
NextCandidate(attempts, direction) == direction * ((attempts \div 2) + 1) * Step

(* the while loop: returns the accepted y and the attempts made *)
RECURSIVE Search(_, _, _, _, _)
Search(placed, x, y, attempts, direction) ==
  IF attempts < MaxAttempts /\ Collision(placed, x, y)
  THEN Search(placed, x, NextCandidate(attempts, direction), attempts + 1, -direction)
  ELSE [y |-> y, attempts |-> attempts]

(* faulty variant: a collision also moves the point sideways *)
PlacedNudgedX(pos, x, found) ==
  [member_id |-> pos.member_id, score |-> pos.score, x |-> x + found.attempts * XUnit,
   rawY |-> found.y, attempts |-> found.attempts]

(* positionsWithY.push({ ...pos, x, y }) *)
Placed(pos, x, found) ==
  [member_id |-> pos.member_id, score |-> pos.score, x |-> x,
   rawY |-> found.y, attempts |-> found.attempts]

(* the for loop over shuffledPositions *)
RECURSIVE PlaceAll(_, _, _)
PlaceAll(shuffled, width, placed) ==
  IF shuffled = <<>> THEN placed
  ELSE LET pos == Head(shuffled)
           x == xScale(pos.score, width)
       IN  PlaceAll(Tail(shuffled), width,
                    Append(placed, Placed(pos, x, Search(placed, x, 0, 0, 1))))

(* [...positions].sort(() => Math.random() - 0.5): some permutation *)
Shuffle(positions, order) == [i \in 1..Len(positions) |-> positions[order[i]]]

(* d3.extent(positionsWithY, d => d.y): [undefined, undefined] when empty *)
SeqMin(s) == CHOOSE m \in {s[i].rawY : i \in 1..Len(s)} :
               \A i \in 1..Len(s) : m <= s[i].rawY
SeqMax(s) == CHOOSE m \in {s[i].rawY : i \in 1..Len(s)} :
               \A i \in 1..Len(s) : m >= s[i].rawY
yExtent(placed) ==
  IF placed = <<>> THEN <<NaN, NaN>>
  ELSE <<Num(SeqMin(placed)), Num(SeqMax(placed))>>

(* yMax - yMin, with yMin = yExtent[0] - radius - padding and
   yMax = yExtent[1] + radius + padding *)
contentHeight(placed) ==
  LET ext == yExtent(placed)
      yMin == NumPlus(ext[1], 0 - radius - padding)
      yMax == NumPlus(ext[2], radius + padding)
  IN  NumMinus(yMax, yMin)

(* faulty variant: the extra 40 pixels left out *)
ChartHeightNoExtra(placed) == MathMax(Num(MinHeight), contentHeight(placed))

(* height = Math.max(200, contentHeight + 40) *)
ChartHeight(placed) == MathMax(Num(MinHeight), NumPlus(contentHeight(placed), ExtraHeight))

(* p.y += yOffset with yOffset = height / 2, in 1/YUnit pixels *)
ShiftY(rawY, height) == YUnit * rawY + height.v

(* faulty variant: the branches of the opacity test swapped *)
OpacityInverted(selected, id) ==
  IF selected # Null THEN (IF selected = id THEN DimOpacity ELSE FullOpacity)
  ELSE FullOpacity

(* marker attributes, lines 203-209 and 234-244 *)
Opacity(selected, id) ==
  IF selected # Null THEN (IF selected = id THEN FullOpacity ELSE DimOpacity)
  ELSE FullOpacity
Stroke(selected, id) ==
  IF selected # Null /\ selected = id THEN "dark" ELSE "white"
StrokeWidth(selected, id) ==
  IF selected # Null /\ selected = id THEN EmphasisStrokeWidth ELSE NormalStrokeWidth

Marker(p, height, selected) ==
  [member_id |-> p.member_id, score |-> p.score, x |-> p.x,
   rawY |-> p.rawY, attempts |-> p.attempts,
   y |-> ShiftY(p.rawY, height),
   opacity |-> Opacity(selected, p.member_id),
   stroke |-> Stroke(selected, p.member_id),
   strokeWidth |-> StrokeWidth(selected, p.member_id),
   r |-> radius]

(* one run of the draw effect *)
DrawChart(positions, cw, selected, order) ==
  LET width == InnerWidth(cw)
      placed == PlaceAll(Shuffle(positions, order), width, <<>>)
      height == ChartHeight(placed)
  IN  [drawn |-> TRUE, width |-> width, height |-> height,
       markers |-> [i \in 1..Len(placed) |-> Marker(placed[i], height, selected)]]

NoScene == [drawn |-> FALSE, width |-> 0, height |-> Num(0), markers |-> <<>>]

----------------------------------------------------------------------------
(* Inputs *)

(* the scores the model draws payloads from *)
ScoreSet == {0 - ScoreDen, 0, 2, ScoreDen}

(* container widths the browser may report *)
LayoutWidths == {500, 800, 1000}
PageWidths == {500, 800}

Positions(scores) == [i \in 1..Len(scores) |-> [member_id |-> i, score |-> scores[i]]]

(* payloads up to MaxN entities; the shuffle makes the input order immaterial,
   so scores are listed in ascending order *)
ScoreSeqs(n) == {s \in [1..n -> ScoreSet] : \A i \in 1..(n - 1) : s[i] <= s[i + 1]}

(* synthetic clusters of equal scores: a stack of four, and stacks dense
   enough that one and then two searches exhaust the attempt ceiling *)
DenseN == (MaxAttempts \div 2) + 1
Cluster(n) == [i \in 1..n |-> [member_id |-> i, score |-> 0]]
ClusterPayloads == {Cluster(n) : n \in {4, DenseN, DenseN + 1}}

LayoutPayloads ==
  {Positions(s) : s \in UNION {ScoreSeqs(n) : n \in 0..MaxN}} \cup ClusterPayloads

PagePayloads == {Positions(<<>>), Positions(<<0 - ScoreDen, 0 - ScoreDen>>)}

(* processing orders: every permutation up to MaxN entities, and the two
   extreme ones of a larger payload *)
Perms(n) == {f \in [1..n -> 1..n] : \A i, j \in 1..n : f[i] = f[j] => i = j}
Orders(n) ==
  IF n <= MaxN THEN Perms(n)
  ELSE {[i \in 1..n |-> i], [i \in 1..n |-> n + 1 - i]}

----------------------------------------------------------------------------
(* State *)

VARIABLES
  data,            \* App: [set, positions], the page payload
  loading,         \* App: the page fetch is pending
  error,           \* App: the page fetch failed
  selectedMember,  \* App: Null or the member_id of the selected entity
  actualWidth,     \* the container's width as the browser measures it
  containerWidth,  \* SpectrumChart state
  tooltip,         \* SpectrumChart state: [shown, x, member_id]
  hover,           \* the marker element the pointer is over, or Null
  scene,           \* what the draw effect last built
  panel,           \* MemberPanel: [mounted, since, details, statements, loading, statementsLoading]
  inflight,        \* requests sent and not settled: [kind, member_id, seq]
  nextSeq          \* number of selection changes that have issued requests

vars == <<data, loading, error, selectedMember, actualWidth, containerWidth,
          tooltip, hover, scene, panel, inflight, nextSeq>>

appVars == <<data, loading, error>>
chartVars == <<containerWidth, tooltip, hover, scene>>
panelVars == <<panel, inflight, nextSeq>>

NoData == [set |-> FALSE, positions |-> <<>>]
NoTooltip == [shown |-> FALSE, x |-> 0, member_id |-> Null]

(* MemberPanel's useState initial values, lines 148-151 *)
NoPanel == [mounted |-> FALSE, since |-> 0, details |-> Null, statements |-> Null,
            loading |-> TRUE, statementsLoading |-> TRUE]

InitWith(widths) ==
  /\ data = NoData
  /\ loading = TRUE
  /\ error = FALSE
  /\ selectedMember = Null
  /\ actualWidth \in widths
  /\ containerWidth = InitialContainerWidth
  /\ tooltip = NoTooltip
  /\ hover = Null
  /\ scene = NoScene
  /\ panel = NoPanel
  /\ inflight = {}
  /\ nextSeq = 0

Init == InitWith(PageWidths)
LayoutInit == InitWith(LayoutWidths)

----------------------------------------------------------------------------
(* SpectrumChart *)

ChartMounted == data.set /\ ~loading /\ ~error

(* the draw effect runs again: the scene is rebuilt from the given inputs
   in some processing order, and the old marker elements are gone *)
Redraw(positions, cw, selected) ==
  /\ \E order \in Orders(Len(positions)) :
       scene' = DrawChart(positions, cw, selected, order)
  /\ hover' = Null

(* handleResize: setContainerWidth(Math.max(600, width)) *)
MeasuredWidth(w) == Max2(MinContainerWidth, w)

(* App's page fetch resolves; the chart mounts, measures and draws *)
FetchPositionsOk(p) ==
  /\ loading
  /\ data' = [set |-> TRUE, positions |-> p]
  /\ loading' = FALSE
  /\ containerWidth' = MeasuredWidth(actualWidth)
  /\ Redraw(p, containerWidth', selectedMember)
  /\ UNCHANGED <<error, selectedMember, actualWidth, tooltip, panel, inflight, nextSeq>>

(* faulty variant: the catch handler records the error and leaves the
   loading flag set *)
FetchPositionsFailKeepsLoading ==
  /\ loading
  /\ error' = TRUE
  /\ UNCHANGED <<data, loading, selectedMember, actualWidth, chartVars, panelVars>>

(* App's page fetch fails: !res.ok, a network error or an unparsable body *)
FetchPositionsFail ==
  /\ loading
  /\ error' = TRUE
  /\ loading' = FALSE
  /\ UNCHANGED <<data, selectedMember, actualWidth, chartVars, panelVars>>

(* faulty variant: the draw effect does not depend on containerWidth *)
HandleResizeNoRedraw(w) ==
  /\ ChartMounted
  /\ actualWidth' = w
  /\ containerWidth' = MeasuredWidth(w)
  /\ UNCHANGED <<appVars, selectedMember, tooltip, hover, scene, panelVars>>

(* the window's resize event *)
HandleResize(w) ==
  /\ ChartMounted
  /\ actualWidth' = w
  /\ containerWidth' = MeasuredWidth(w)
  /\ IF containerWidth' # containerWidth
     THEN Redraw(data.positions, containerWidth', selectedMember)
     ELSE UNCHANGED <<scene, hover>>
  /\ UNCHANGED <<appVars, selectedMember, tooltip, panelVars>>

SetMarker(i, r, sw) ==
  [scene EXCEPT !.markers[i].r = r, !.markers[i].strokeWidth = sw]

MarkerIndex(id) == CHOOSE i \in 1..Len(scene.markers) : scene.markers[i].member_id = id

(* the page x of the container's left edge: the page's horizontal padding
   (px-6), the card's border and the card's padding (p-6), for a viewport
   narrower than the page's maximum width *)
ContainerLeft == 24 + 1 + 24

(* the page x of the centre of marker i *)
MarkerPageX(i) == ContainerLeft + (MarginLeft * XUnit + scene.markers[i].x) \div XUnit

(* event.pageX of a pointer over marker i: at its centre *)
PointerXs(i) ==
  IF i \in 1..Len(scene.markers) THEN {MarkerPageX(i)} ELSE {}

(* ... or anywhere between its left and right edge *)
PointerSpan(i) ==
  IF i \in 1..Len(scene.markers)
  THEN {MarkerPageX(i) - radius, MarkerPageX(i), MarkerPageX(i) + radius}
  ELSE {}

(* the tooltip's left style, lines 269-272:
   Math.min(tooltip.x - getBoundingClientRect().left + 12, containerWidth - 200) *)
TooltipGap == 12
TooltipWidth == 200
Min2(a, b) == IF a <= b THEN a ELSE b
TooltipLeft == Min2(tooltip.x - ContainerLeft + TooltipGap, containerWidth - TooltipWidth)

(* mouseover on a marker *)
MouseOver(i, px) ==
  /\ ChartMounted
  /\ hover = Null
  /\ i \in 1..Len(scene.markers)
  /\ tooltip' = [shown |-> TRUE, x |-> px, member_id |-> scene.markers[i].member_id]
  /\ scene' = SetMarker(i, radius + HoverGrow, EmphasisStrokeWidth)
  /\ hover' = scene.markers[i].member_id
  /\ UNCHANGED <<appVars, selectedMember, actualWidth, containerWidth, panelVars>>

(* faulty variant: the border always goes back to the normal width *)
MouseOutNormalBorder ==
  /\ ChartMounted
  /\ hover # Null
  /\ tooltip' = NoTooltip
  /\ scene' = SetMarker(MarkerIndex(hover), radius, NormalStrokeWidth)
  /\ hover' = Null
  /\ UNCHANGED <<appVars, selectedMember, actualWidth, containerWidth, panelVars>>

(* mouseout of the marker the pointer was over *)
MouseOut ==
  /\ ChartMounted
  /\ hover # Null
  /\ tooltip' = NoTooltip
  /\ scene' = SetMarker(MarkerIndex(hover), radius, StrokeWidth(selectedMember, hover))
  /\ hover' = Null
  /\ UNCHANGED <<appVars, selectedMember, actualWidth, containerWidth, panelVars>>

----------------------------------------------------------------------------
(* MemberPanel *)

Request(kind, id, seq) == [kind |-> kind, member_id |-> id, seq |-> seq]

(* the effect of lines 153-172 for member id: both flags set, both requests sent *)
IssueRequests(p, id, seq) ==
  [panel |-> [p EXCEPT !.loading = TRUE, !.statementsLoading = TRUE],
   sent |-> {Request("details", id, seq), Request("statements", id, seq)}]

(* faulty variant: the callbacks act on whatever panel is mounted *)
LiveAnyInstance(req) == panel.mounted

(* a request's callbacks act on the panel instance that sent it *)
Live(req) == panel.mounted /\ req.seq >= panel.since

(* faulty variant: the effect depends on the member object, which is a new
   one at every click *)
MemberIdChangedAlways(current, new) == TRUE

(* the effect's dependency list [member.member_id], line 172: the effect of
   a panel that stays mounted runs again when the id differs *)
MemberIdChanged(current, new) == new # current

(* App's render after setSelectedMember(new): the panel is mounted exactly
   while a member is selected (line 318), keeps its instance while it stays
   mounted, and its effect runs when member.member_id changes (line 172);
   the chart's draw effect runs again (selectedMember is a dependency) *)
SetSelectedMember(new) ==
  /\ selectedMember' = new
  /\ IF new = Null
     THEN panel' = NoPanel /\ UNCHANGED <<inflight, nextSeq>>
     ELSE IF ~MemberIdChanged(selectedMember, new)
     THEN UNCHANGED panelVars
     ELSE LET fresh == [NoPanel EXCEPT !.mounted = TRUE, !.since = nextSeq + 1]
              out == IssueRequests(IF selectedMember = Null THEN fresh ELSE panel,
                                   new, nextSeq + 1)
          IN  /\ nextSeq < MaxSelections
              /\ panel' = out.panel
              /\ inflight' = inflight \cup out.sent
              /\ nextSeq' = nextSeq + 1
  /\ Redraw(data.positions, containerWidth, new)

(* faulty variant: a second click on the selected marker deselects it *)
OnMemberClickToggle(current, id) == IF current = id THEN Null ELSE id

(* onMemberClick={setSelectedMember}: the clicked entity becomes the selection *)
OnMemberClick(current, id) == id

(* click on a marker: onMemberClick(d) *)
ClickMember(i) ==
  /\ ChartMounted
  /\ i \in 1..Len(scene.markers)
  /\ SetSelectedMember(OnMemberClick(selectedMember, scene.markers[i].member_id))
  /\ UNCHANGED <<appVars, actualWidth, containerWidth, tooltip>>

(* the panel's close button: onClose = () => setSelectedMember(null) *)
ClosePanel ==
  /\ selectedMember # Null
  /\ SetSelectedMember(Null)
  /\ UNCHANGED <<appVars, actualWidth, containerWidth, tooltip>>

(* GET /api/members/{id} resolves with the member's detail *)
DetailsResolve(req) ==
  /\ req \in inflight /\ req.kind = "details"
  /\ inflight' = inflight \ {req}
  /\ panel' = IF Live(req)
              THEN [panel EXCEPT !.details = req.member_id, !.loading = FALSE]
              ELSE panel
  /\ UNCHANGED <<appVars, selectedMember, actualWidth, chartVars, nextSeq>>

(* faulty variant: no catch handler, the flag stays set after a failure *)
DetailsRejectKeepsLoading(req) ==
  /\ req \in inflight /\ req.kind = "details"
  /\ inflight' = inflight \ {req}
  /\ UNCHANGED <<appVars, selectedMember, actualWidth, chartVars, panel, nextSeq>>

(* GET /api/members/{id} fails *)
DetailsReject(req) ==
  /\ req \in inflight /\ req.kind = "details"
  /\ inflight' = inflight \ {req}
  /\ panel' = IF Live(req) THEN [panel EXCEPT !.loading = FALSE] ELSE panel
  /\ UNCHANGED <<appVars, selectedMember, actualWidth, chartVars, nextSeq>>

(* faulty variant: one shared loading flag, cleared by the statements *)
StatementsResolveClearsBoth(req) ==
  /\ req \in inflight /\ req.kind = "statements"
  /\ inflight' = inflight \ {req}
  /\ panel' = IF Live(req)
              THEN [panel EXCEPT !.statements = req.member_id,
                                 !.statementsLoading = FALSE, !.loading = FALSE]
              ELSE panel
  /\ UNCHANGED <<appVars, selectedMember, actualWidth, chartVars, nextSeq>>

(* GET /api/members/{id}/statements resolves *)
StatementsResolve(req) ==
  /\ req \in inflight /\ req.kind = "statements"
  /\ inflight' = inflight \ {req}
  /\ panel' = IF Live(req)
              THEN [panel EXCEPT !.statements = req.member_id, !.statementsLoading = FALSE]
              ELSE panel
  /\ UNCHANGED <<appVars, selectedMember, actualWidth, chartVars, nextSeq>>

(* GET /api/members/{id}/statements fails *)
StatementsReject(req) ==
  /\ req \in inflight /\ req.kind = "statements"
  /\ inflight' = inflight \ {req}
  /\ panel' = IF Live(req) THEN [panel EXCEPT !.statementsLoading = FALSE] ELSE panel
  /\ UNCHANGED <<appVars, selectedMember, actualWidth, chartVars, nextSeq>>

----------------------------------------------------------------------------
(* Specifications *)

Next ==
  \/ \E p \in PagePayloads : FetchPositionsOk(p)
  \/ FetchPositionsFail
  \/ \E w \in PageWidths : HandleResize(w)
  \/ \E i \in 1..MaxN : \E px \in PointerXs(i) : MouseOver(i, px)
  \/ MouseOut
  \/ \E i \in 1..MaxN : ClickMember(i)
  \/ ClosePanel
  \/ \E req \in inflight : DetailsResolve(req)
  \/ \E req \in inflight : DetailsReject(req)
  \/ \E req \in inflight : StatementsResolve(req)
  \/ \E req \in inflight : StatementsReject(req)

Spec == Init /\ [][Next]_vars

(* the layout over many payloads: the page loads and the window is resized *)
LayoutNext ==
  \/ \E p \in LayoutPayloads : FetchPositionsOk(p)
  \/ \E w \in LayoutWidths : HandleResize(w)

LayoutSpec == LayoutInit /\ [][LayoutNext]_vars

(* the panel alone: the page loads, members are selected, the panel is
   closed and the requests settle; every request that was sent is eventually
   answered or fails *)
PanelNext ==
  \/ \E p \in PagePayloads : FetchPositionsOk(p)
  \/ \E i \in 1..MaxN : ClickMember(i)
  \/ ClosePanel
  \/ \E req \in inflight : DetailsResolve(req)
  \/ \E req \in inflight : DetailsReject(req)
  \/ \E req \in inflight : StatementsResolve(req)
  \/ \E req \in inflight : StatementsReject(req)

Settles(req) ==
  \/ DetailsResolve(req) \/ DetailsReject(req)
  \/ StatementsResolve(req) \/ StatementsReject(req)

PanelFairSpec ==
  /\ Init /\ [][PanelNext]_vars
  /\ \A kind \in {"details", "statements"}, id \in 1..MaxN, seq \in 1..MaxSelections :
       WF_vars(Settles(Request(kind, id, seq)))

(* the chart alone, over one or two entities and narrow and wide containers:
   the page loads, the window is resized, the pointer enters and leaves *)
TooltipWidths == {400, 500, 600, 700}
TooltipPayloads == {Positions(s) : s \in ScoreSeqs(1) \cup ScoreSeqs(2)}
TooltipInit == InitWith(TooltipWidths)

TooltipNext ==
  \/ \E p \in TooltipPayloads : FetchPositionsOk(p)
  \/ \E w \in TooltipWidths : HandleResize(w)
  \/ \E i \in 1..MaxN : \E px \in PointerSpan(i) : MouseOver(i, px)
  \/ MouseOut

TooltipSpec == TooltipInit /\ [][TooltipNext]_vars

(* the scene over entities of different scores: the data arrives, the window
   is resized, members are selected and the panel is closed *)
ScenePayloads == {Positions(s) : s \in ScoreSeqs(2) \cup ScoreSeqs(3)}

SceneNext ==
  \/ \E p \in ScenePayloads : FetchPositionsOk(p)
  \/ \E w \in LayoutWidths : HandleResize(w)
  \/ \E i \in 1..MaxN : ClickMember(i)
  \/ ClosePanel

SceneSpec == LayoutInit /\ [][SceneNext]_vars

----------------------------------------------------------------------------
(* Helpers of the properties *)

Markers == {scene.markers[i] : i \in 1..Len(scene.markers)}
MarkerOf(sc, id) == CHOOSE m \in {sc.markers[i] : i \in 1..Len(sc.markers)} : m.member_id = id
Ids == {data.positions[i].member_id : i \in 1..Len(data.positions)}

(* the search of marker m ran into the attempt ceiling *)
Exhausted(m) == m.attempts >= 50

(* centre distance of two drawn markers >= d pixels, on the drawn (x, y) *)
AtLeastApart(a, b, d) ==
  LET dx == a.x - b.x
      dy == (a.y - b.y) * (XUnit \div YUnit)
      lim == d * XUnit
  IN  \/ dx >= lim \/ -dx >= lim
      \/ dy >= lim \/ -dy >= lim
      \/ dx * dx + dy * dy >= lim * lim

(* the x a marker is drawn at inside the svg: the group is translated by
   margin.left (line 115) *)
DrawnX(m) == MarginLeft * XUnit + m.x

----------------------------------------------------------------------------
(* C1: in every layout pass, every pair of distinct placements has centre
   distance >= 2 * (radius + padding) = 26, unless the collision search of
   one of the two exhausted the 50-attempt ceiling. *)
C1_MinSeparation ==
  scene.drawn =>
    \A a, b \in Markers :
      a.member_id # b.member_id =>
        Exhausted(a) \/ Exhausted(b) \/ AtLeastApart(a, b, 2 * (12 + 1))

(* a layout in which one search stepped aside and found a free candidate and
   another one exhausted the ceiling and overlaps a neighbour *)
C1_Witness ==
  /\ scene.drawn
  /\ \E a \in Markers : a.attempts > 0 /\ ~Exhausted(a)
  /\ \E a, b \in Markers :
       a.member_id # b.member_id /\ Exhausted(a) /\ ~AtLeastApart(a, b, 26)

(* C3: the x of each entity depends only on its score and the usable width:
   every processing order of the same input at the same width gives every
   entity the x it has in the drawn scene, namely (score + 1) / 2 * width;
   the order can change only y. *)
C3_XIndependentOfOrder ==
  scene.drawn =>
    \A order \in Orders(Len(data.positions)) :
      LET other == DrawChart(data.positions, containerWidth, selectedMember, order)
      IN  \A id \in Ids :
            /\ MarkerOf(other, id).x = MarkerOf(scene, id).x
            /\ MarkerOf(scene, id).x =
                 (MarkerOf(scene, id).score + ScoreDen) * (containerWidth - 100)

(* a scene for which another processing order moves an entity to another y *)
C3_Witness ==
  /\ scene.drawn
  /\ \E order \in Orders(Len(data.positions)) :
       LET other == DrawChart(data.positions, containerWidth, selectedMember, order)
       IN  \E id \in Ids : MarkerOf(other, id).rawY # MarkerOf(scene, id).rawY

(* C4: at container width 600 (margins of 50), scores -1, 0 and 1 are drawn
   at x = 50, 300 and 550, and in every processing order none of the three
   collides: each keeps the first candidate y = 0. *)
C4_ThreePoints ==
  (scene.drawn /\ containerWidth = 600
     /\ data.positions = Positions(<<0 - ScoreDen, 0, ScoreDen>>)) =>
    /\ Len(scene.markers) = 3
    /\ \A m \in Markers :
         /\ m.score = 0 - ScoreDen => DrawnX(m) = 50 * XUnit
         /\ m.score = 0 => DrawnX(m) = 300 * XUnit
         /\ m.score = ScoreDen => DrawnX(m) = 550 * XUnit
         /\ m.attempts = 0 /\ m.rawY = 0

C4_Witness ==
  /\ scene.drawn /\ containerWidth = 600
  /\ data.positions = Positions(<<0 - ScoreDen, 0, ScoreDen>>)
  /\ scene.markers[1].score = ScoreDen

(* C5: for an empty positions list the layout pass gives an empty placement
   set and a canvas height that is the number 200. *)
C5_EmptyHeight ==
  (scene.drawn /\ data.positions = <<>>) =>
    /\ scene.markers = <<>>
    /\ ~scene.height.nan
    /\ scene.height.v = 200

(* C6: for N >= 1 the canvas height is
   max(200, (maxY - minY + 2 * (radius + padding)) + 40) over the raw y. *)
C6_Height ==
  (scene.drawn /\ Len(scene.markers) >= 1) =>
    \E lo, hi \in Markers :
      /\ \A m \in Markers : lo.rawY <= m.rawY /\ m.rawY <= hi.rawY
      /\ ~scene.height.nan
      /\ scene.height.v >= 200
      /\ scene.height.v >= (hi.rawY - lo.rawY + 26) + 40
      /\ scene.height.v = 200 \/ scene.height.v = (hi.rawY - lo.rawY + 26) + 40

(* a cluster that makes the canvas grow beyond the minimum *)
C6_Witness ==
  /\ scene.drawn /\ Len(scene.markers) >= 1
  /\ ~scene.height.nan /\ scene.height.v > 200

(* C7: for N >= 1, after the shift every marker lies vertically inside the
   canvas: y - (radius + padding) >= 0 and y + (radius + padding) <= height. *)
C7_MarkersInsideCanvas ==
  (scene.drawn /\ Len(scene.markers) >= 1) =>
    \A m \in Markers :
      /\ m.y - YUnit * 13 >= 0
      /\ m.y + YUnit * 13 <= YUnit * scene.height.v

(* C8: for N >= 1 the shift centres the vertical extent: the gap above the
   extent equals the gap below it. *)
C8_ExtentCentred ==
  (scene.drawn /\ Len(scene.markers) >= 1) =>
    \E lo, hi \in Markers :
      /\ \A m \in Markers : lo.y <= m.y /\ m.y <= hi.y
      /\ (lo.y - YUnit * 13) - 0 = YUnit * scene.height.v - (hi.y + YUnit * 13)

(* C2: a response that arrives for an entity other than the selected one is
   discarded: it changes neither the votes nor the statements of the panel,
   so that once everything has settled the record holds the selected
   entity's data only. *)
C2_StaleResponseDiscarded ==
  [][\A req \in inflight :
       (panel.mounted /\ req.member_id # selectedMember) =>
         /\ DetailsResolve(req) => panel'.details = panel.details
         /\ StatementsResolve(req) => panel'.statements = panel.statements]_vars

(* C9: opacity and emphasis follow the current selection alone: the selected
   marker has opacity 1 and the emphasised border, every other marker
   opacity 0.35; with no selection every marker has opacity 1 and none has
   the emphasised border. *)
Emphasised(m) == m.stroke = "dark" /\ m.strokeWidth = 3
C9_OpacityFollowsSelection ==
  scene.drawn =>
    \A m \in Markers :
      IF selectedMember # Null
      THEN IF m.member_id = selectedMember
           THEN m.opacity = 100 /\ Emphasised(m)
           ELSE m.opacity = 35 /\ ~Emphasised(m)
      ELSE m.opacity = 100 /\ ~Emphasised(m)

(* a selection with a dimmed, hovered other marker *)
C9_Witness ==
  /\ scene.drawn /\ selectedMember # Null
  /\ \E m \in Markers : m.member_id = selectedMember /\ m.opacity = 100
  /\ \E m \in Markers : m.member_id # selectedMember /\ m.opacity = 35 /\ m.r = 15

(* C10: one selection at most; a click on a marker makes that marker's
   entity the selection in the same step, with the panel mounted before and
   after when something was selected (no state with nothing selected in
   between, no toggle-off on a second click), and the selection becomes
   empty only by the close action. *)
C10_SelectionSteps ==
  [][/\ \A i \in 1..Len(scene.markers) :
          ClickMember(i) =>
            /\ selectedMember' = scene.markers[i].member_id
            /\ selectedMember' # Null
            /\ panel'.mounted
            /\ selectedMember # Null => panel.mounted /\ panel'.since = panel.since
     /\ (selectedMember # Null /\ selectedMember' = Null) => ClosePanel
     /\ selectedMember' # Null <=> panel'.mounted]_vars

(* the panel was mounted by the first selection and has seen a second one *)
C10_Witness ==
  /\ panel.mounted /\ panel.since = 1 /\ nextSeq = 2
  /\ selectedMember # Null

(* C11: when a retrieval sent for the selected entity fails, the loading
   flag of that collection becomes false and the collection shown for the
   entity is empty, whatever was loaded earlier in the same panel. *)
C11_FailureShowsEmpty ==
  [][\A req \in inflight :
       (Live(req) /\ req.member_id = selectedMember) =>
         /\ DetailsReject(req) =>
              ~panel'.loading /\ panel'.details = Null
         /\ StatementsReject(req) =>
              ~panel'.statementsLoading /\ panel'.statements = Null]_vars

(* C12: a failed page fetch ends in the error state for good: the error is
   set, the loading flag is false, the data is never set, neither the chart
   nor the panel is ever rendered and no further fetch is completed (the
   request is sent once, by the mount effect); conversely the chart is
   rendered only with the loading flag false, no error and the data set. *)
C12_ErrorState ==
  /\ [](/\ error => /\ ~loading /\ ~data.set
                    /\ ~scene.drawn /\ ~panel.mounted /\ selectedMember = Null
        /\ scene.drawn => ~loading /\ ~error /\ data.set)
  /\ [][/\ error => error' /\ UNCHANGED appVars
        /\ ~loading =>
             /\ ~FetchPositionsFail
             /\ \A p \in PagePayloads : ~FetchPositionsOk(p)]_vars

(* the page fetch has failed *)
C12_Witness ==
  error /\ ~loading /\ ~data.set

(* C13: a step that sends requests leaves both loading flags true; every
   request being answered or failing, a flag that is true in a mounted panel
   eventually becomes false; and a mounted panel with no request of its own
   in flight for a collection has that collection's flag false. *)
LiveInFlight(kind) == {req \in inflight : req.kind = kind /\ Live(req)}
C13_FlagsSettle ==
  /\ [](panel.mounted =>
          /\ LiveInFlight("details") = {} => ~panel.loading
          /\ LiveInFlight("statements") = {} => ~panel.statementsLoading)
  /\ [][inflight' \ inflight # {} =>
          /\ panel'.mounted /\ panel'.loading /\ panel'.statementsLoading
          /\ \A req \in inflight' \ inflight : req.member_id = selectedMember']_vars
  /\ (panel.mounted /\ panel.loading) ~> (~panel.mounted \/ ~panel.loading)
  /\ (panel.mounted /\ panel.statementsLoading)
       ~> (~panel.mounted \/ ~panel.statementsLoading)

(* the panel has seen two selections and every request has settled *)
C13_Witness ==
  /\ panel.mounted /\ panel.since = 1 /\ nextSeq = 2
  /\ inflight = {}
  /\ ~panel.loading /\ ~panel.statementsLoading

(* the distance of marker i from the vertical centre of the canvas, in
   1/YUnit pixels *)
CentreOffset(i) ==
  LET d == scene.markers[i].y - scene.height.v
  IN  IF d >= 0 THEN d ELSE 0 - d

ThreeAtZero == scene.drawn /\ data.positions = Positions(<<0, 0, 0>>)

(* C14 as stated: three entities of score 0.0 share one x and, in placement
   order, their distances from the centre are strictly increasing. *)
C14_StrictlyIncreasing ==
  ThreeAtZero =>
    /\ \A i, j \in 1..3 : scene.markers[i].x = scene.markers[j].x
    /\ CentreOffset(1) < CentreOffset(2)
    /\ CentreOffset(2) < CentreOffset(3)

(* C14 amended: three entities of score 0.0 share one x and are stacked at
   the centre, 50 below it and 50 above it, in placement order: their
   distances from the centre are 0, 50 and 50, non-decreasing and not
   strictly increasing, and the three y differ. *)
C14_Stacked ==
  ThreeAtZero =>
    /\ \A i, j \in 1..3 : scene.markers[i].x = scene.markers[j].x
    /\ scene.markers[1].y = scene.height.v
    /\ scene.markers[2].y = scene.height.v + YUnit * 50
    /\ scene.markers[3].y = scene.height.v - YUnit * 50
    /\ CentreOffset(1) = 0
    /\ CentreOffset(2) = YUnit * 50
    /\ CentreOffset(3) = YUnit * 50

(* three entities of score 0.0 are drawn, the third on the other side of the
   centre *)
C14_Witness ==
  /\ ThreeAtZero
  /\ Len(scene.markers) = 3
  /\ scene.markers[3].rawY < 0

(* C15: while the panel is shown for an entity and a collection's loading
   flag is false, the collection displayed is empty or was retrieved for
   that entity, never the data of an entity selected before. *)
C15_ShownDataIsCurrent ==
  panel.mounted =>
    /\ ~panel.loading => panel.details \in {Null, selectedMember}
    /\ ~panel.statementsLoading => panel.statements \in {Null, selectedMember}

(* C16: for every pointer position and every actual container width, also
   below 600, the tooltip's left offset is
   min(pointerX - containerLeft + 12, containerWidth - 200), and
   left + 200 does not exceed the container's actual width. *)
C16_TooltipInsideContainer ==
  tooltip.shown =>
    /\ \/ /\ TooltipLeft = tooltip.x - ContainerLeft + 12
          /\ TooltipLeft <= containerWidth - 200
       \/ /\ TooltipLeft = containerWidth - 200
          /\ TooltipLeft <= tooltip.x - ContainerLeft + 12
    /\ TooltipLeft + 200 <= actualWidth

(* the k-th candidate of the sequence 0, +25, -25, +50, -50, ... (k from 0) *)
CandidateAt(k) ==
  IF k = 0 THEN 0
  ELSE (IF k % 2 = 1 THEN 1 ELSE 0 - 1) * ((k + 1) \div 2) * 25

(* the point (x, y) is closer than 26 to the raw position of marker j *)
Clashes(j, x, y) ==
  LET dx == x - scene.markers[j].x
      dy == (y - scene.markers[j].rawY) * XUnit
  IN  /\ dx < 26 * XUnit /\ 0 - dx < 26 * XUnit
      /\ dy < 26 * XUnit /\ 0 - dy < 26 * XUnit
      /\ dx * dx + dy * dy < (26 * XUnit) * (26 * XUnit)

(* C17: each search tests the candidates 0, +25, -25, +50, -50, ... in this
   order against the entities placed before: the entity is placed at the
   first candidate that collides with none of them, every earlier candidate
   collides with one; after 50 colliding candidates the search stops and the
   entity takes the candidate generated last (the 51st of the sequence,
   untested). The search ends for every input, after at most 50 attempts. *)
C17_SearchOrder ==
  scene.drawn =>
    \A i \in 1..Len(scene.markers) :
      LET m == scene.markers[i]
      IN  /\ m.attempts \in 0..50
          /\ m.rawY = CandidateAt(m.attempts)
          /\ \A k \in 0..(m.attempts - 1) :
               \E j \in 1..(i - 1) : Clashes(j, m.x, CandidateAt(k))
          /\ m.attempts < 50 =>
               \A j \in 1..(i - 1) : ~Clashes(j, m.x, m.rawY)

(* one search found a free candidate on the upper side after several steps
   and another ran into the ceiling *)
C17_Witness ==
  /\ scene.drawn
  /\ \E i \in 1..Len(scene.markers) :
       scene.markers[i].attempts \in 4..49 /\ scene.markers[i].rawY < 0
  /\ \E i \in 1..Len(scene.markers) :
       scene.markers[i].attempts = 50 /\ scene.markers[i].rawY = 0 - 625

(* C18: the two retrievals are independent: the answer to or the failure of
   the member-detail request leaves the statements and their loading flag
   as they were, the answer to or the failure of the statements request
   leaves the votes and their loading flag as they were, and neither touches
   the selection or the panel's being mounted. *)
C18_RetrievalsIndependent ==
  [][\A req \in inflight :
       /\ (DetailsResolve(req) \/ DetailsReject(req)) =>
            /\ panel'.statements = panel.statements
            /\ panel'.statementsLoading = panel.statementsLoading
       /\ (StatementsResolve(req) \/ StatementsReject(req)) =>
            /\ panel'.details = panel.details
            /\ panel'.loading = panel.loading
       /\ Settles(req) =>
            /\ panel'.mounted = panel.mounted /\ panel'.since = panel.since
            /\ selectedMember' = selectedMember]_vars

(* one collection has arrived while the other is still loading *)
C18_Witness ==
  /\ panel.mounted
  /\ \/ /\ ~panel.loading /\ panel.details # Null
        /\ panel.statementsLoading /\ panel.statements = Null
     \/ /\ ~panel.statementsLoading /\ panel.statements # Null
        /\ panel.loading /\ panel.details = Null

(* C19: in every state reached by resizes, the arrival of the data and
   selections, the scene is drawn from the current positions, container
   width and selection together: the markers are those of the current
   positions, each at the x its score has at the current container width,
   and opacity and border colour are those of the current selection. *)
C19_SceneFromOneSnapshot ==
  ChartMounted =>
    /\ scene.drawn
    /\ containerWidth = (IF actualWidth > 600 THEN actualWidth ELSE 600)
    /\ scene.width = containerWidth - 50 - 50
    /\ Len(scene.markers) = Len(data.positions)
    /\ {scene.markers[i].member_id : i \in 1..Len(scene.markers)} = Ids
    /\ \A i \in 1..Len(scene.markers) :
         LET m == scene.markers[i]
             sel == selectedMember # Null /\ m.member_id = selectedMember
         IN  /\ m.score = data.positions[m.member_id].score
             /\ m.x = (m.score + ScoreDen) * (containerWidth - 50 - 50)
             /\ m.opacity = (IF selectedMember = Null \/ sel THEN 100 ELSE 35)
             /\ m.stroke = (IF sel THEN "dark" ELSE "white")

(* a second selection in a container wider than the initial one, with
   markers at different x *)
C19_Witness ==
  /\ ChartMounted /\ scene.drawn
  /\ selectedMember # Null /\ nextSeq = 2
  /\ containerWidth = 1000 /\ scene.width = 900
  /\ \E i, j \in 1..Len(scene.markers) :
       scene.markers[i].x = 0 /\ scene.markers[j].x = 900 * XUnit

(* the pointer enters some marker *)
PointerEnters ==
  \E i \in 1..Len(scene.markers) : \E px \in PointerSpan(i) : MouseOver(i, px)

(* the placement and the selection styling of every marker are the same
   before and after the step *)
SamePlacements ==
  /\ scene'.drawn = scene.drawn
  /\ scene'.width = scene.width /\ scene'.height = scene.height
  /\ Len(scene'.markers) = Len(scene.markers)
  /\ \A i \in 1..Len(scene.markers) :
       /\ scene'.markers[i].member_id = scene.markers[i].member_id
       /\ scene'.markers[i].x = scene.markers[i].x
       /\ scene'.markers[i].y = scene.markers[i].y
       /\ scene'.markers[i].opacity = scene.markers[i].opacity
       /\ scene'.markers[i].stroke = scene.markers[i].stroke

(* C20: hover and selection are independent: the pointer entering or leaving
   a marker changes only the tooltip and the radius and border width of that
   marker; the selection, the placements, the panel's record and requests
   stay as they are and nothing is laid out again; after the pointer has
   left, the tooltip is absent and the marker has radius 12 and border width
   3 if it is the selected one, 2 otherwise. *)
C20_HoverIndependentOfSelection ==
  [][/\ (PointerEnters \/ MouseOut) =>
          /\ selectedMember' = selectedMember
          /\ panel' = panel /\ inflight' = inflight /\ nextSeq' = nextSeq
          /\ data' = data /\ containerWidth' = containerWidth
          /\ SamePlacements
          /\ \A i \in 1..Len(scene.markers) :
               scene.markers[i].member_id \notin {hover, hover'} =>
                 scene'.markers[i] = scene.markers[i]
     /\ MouseOut =>
          /\ ~tooltip'.shown
          /\ \A i \in 1..Len(scene.markers) :
               scene.markers[i].member_id = hover =>
                 /\ scene'.markers[i].r = 12
                 /\ scene'.markers[i].strokeWidth =
                      (IF selectedMember # Null /\ selectedMember = hover
                       THEN 3 ELSE 2)]_vars

(* the pointer is over the selected marker, which is enlarged, while the
   panel is loading *)
C20_Witness ==
  /\ hover # Null /\ hover = selectedMember
  /\ tooltip.shown /\ tooltip.member_id = hover
  /\ scene.markers[MarkerIndex(hover)].r = 15
  /\ panel.mounted /\ panel.loading

(* C21: a step that changes only the selection (a click on a marker or the
   close action), with positions and container width as they were, leaves
   the (x, y) of every entity and the canvas height unchanged. *)
C21_SelectionKeepsPlacements ==
  [][((\E i \in 1..Len(scene.markers) : ClickMember(i)) \/ ClosePanel) =>
       /\ scene'.height = scene.height
       /\ \A i \in 1..Len(scene.markers), j \in 1..Len(scene'.markers) :
            scene'.markers[j].member_id = scene.markers[i].member_id =>
              /\ scene'.markers[j].x = scene.markers[i].x
              /\ scene'.markers[j].y = scene.markers[i].y]_vars

(* C22: a layout pass never gives two distinct entities exactly the same
   (x, y) point, for any number of entities and any scores, also when a
   collision search has exhausted the attempt ceiling. *)
C22_NoCoincidentMarkers ==
  scene.drawn =>
    \A a, b \in Markers :
      a.member_id # b.member_id => ~(a.x = b.x /\ a.y = b.y)

(* C23: whenever the tooltip is shown, the marker it describes is in the
   scene in its hover rendering, radius 15 and border width 3, also after
   the scene was rebuilt with the pointer still over a marker. *)
C23_TooltipMarkerEnlarged ==
  tooltip.shown =>
    \E m \in Markers :
      /\ m.member_id = tooltip.member_id
      /\ m.r = 15 /\ m.strokeWidth = 3

(* C24: while the panel is mounted, the loading flag of a collection is true
   as long as the request sent for the currently selected entity (the one
   sent last) is in flight; a request of an entity selected before never
   clears it. *)
C24_FlagWhilePending ==
  panel.mounted =>
    \A req \in inflight :
      (req.seq = nextSeq /\ req.member_id = selectedMember) =>
        /\ req.kind = "details" => panel.loading
        /\ req.kind = "statements" => panel.statementsLoading

(* C25: requests are sent exactly when the selected member id changes: a
   click that opens the panel or switches to another id sends exactly one
   member-detail request and one statements request for that id; a click on
   the marker already selected sends nothing and leaves both loading flags
   and the record as they are; no other step sends a request. *)
C25_RequestsOnIdChange ==
  [][/\ \A i \in 1..Len(scene.markers) :
          ClickMember(i) =>
            LET id == scene.markers[i].member_id
            IN  IF id # selectedMember
                THEN /\ inflight \subseteq inflight'
                     /\ inflight' \ inflight =
                          {[kind |-> "details", member_id |-> id, seq |-> nextSeq'],
                           [kind |-> "statements", member_id |-> id, seq |-> nextSeq']}
                     /\ nextSeq' = nextSeq + 1
                ELSE /\ inflight' = inflight /\ nextSeq' = nextSeq
                     /\ panel' = panel
     /\ inflight' \ inflight # {} =>
          /\ selectedMember' # Null /\ selectedMember' # selectedMember
          /\ \E i \in 1..Len(scene.markers) : ClickMember(i)]_vars

(* two selections of different members, each with its two requests pending *)
C25_Witness ==
  /\ panel.mounted /\ nextSeq = 2
  /\ \A kind \in {"details", "statements"} :
       \E a, b \in inflight :
         /\ a.kind = kind /\ b.kind = kind
         /\ a.seq = 1 /\ b.seq = 2 /\ a.member_id # b.member_id
         /\ b.member_id = selectedMember

(* C26: a panel opened after a close starts with both loading flags true and
   an empty record; the settling of a request sent before the close leaves
   the new panel as it is, and the flags and data of a mounted panel change
   only by a selection or by the settling of a request that this panel has
   sent. *)
C26_ClosedPanelRequestsDead ==
  [][/\ (~panel.mounted /\ panel'.mounted) =>
          /\ panel'.loading /\ panel'.statementsLoading
          /\ panel'.details = Null /\ panel'.statements = Null
          /\ panel'.since = nextSeq' /\ nextSeq' = nextSeq + 1
     /\ \A req \in inflight :
          (panel.mounted /\ req.seq < panel.since /\ Settles(req)) =>
            panel' = panel
     /\ (panel.mounted /\ panel'.mounted /\ panel' # panel) =>
          \/ \E i \in 1..Len(scene.markers) : ClickMember(i)
          \/ \E req \in inflight : req.seq >= panel.since /\ Settles(req)]_vars

(* a panel opened after a close, still untouched, while one request sent
   before the close is in flight and the other has settled *)
C26_Witness ==
  /\ panel.mounted /\ panel.since = 2
  /\ panel.loading /\ panel.statementsLoading
  /\ panel.details = Null /\ panel.statements = Null
  /\ \E req \in inflight : req.seq = 1 /\ req.kind = "statements"
  /\ \A req \in inflight : req.seq = 1 => req.kind = "statements"

====
